---- MODULE Spec2Model ----
(***************************************************************************)
(* Photo Sorter API (src/main.py): the photo and person collections of the *)
(* document store and the HTTP handlers that read and write them.          *)
(*                                                                         *)
(* An optional value (Python's Optional[T]) is a sequence of length at     *)
(* most one: <<>> is None and <<v>> is the value v.  A collection is the   *)
(* sequence of its documents in natural (insertion) order; no handler      *)
(* deletes a document.  The store is configured and reachable (db is not   *)
(* None), so no handler takes its except branch.  A document keeps the     *)
(* fields the handlers read or compare: the stamps (created_at,            *)
(* updated_at, taken_at), gps_lat, gps_lon and notes are left out.         *)
(***************************************************************************)
EXTENDS Integers, Sequences, FiniteSets, TLC

VARIABLES photos, persons, resp, prev, writes, inflight

vars == <<photos, persons, resp, prev, writes, inflight>>

None == <<>>
Some(v) == <<v>>

\* ------------------------------------------------------------------ bounds

\* Number of writing requests (add_photo, create_person, identify, seed) in a run.
MaxWrites == 3

\* ------------------------------------------------------------ Python helpers

Range(s) == {s[i] : i \in DOMAIN s}

\* The number of entries of list s equal to x (list.count).
Count(s, x) == Cardinality({i \in DOMAIN s : s[i] = x})

\* The position of the first document of coll that matches {field: value}, the
\* one update_one and find_one select; 0 when none matches.
FirstIndex(coll, field, value) ==
    IF \E i \in DOMAIN coll : coll[i][field] = value
    THEN CHOOSE i \in DOMAIN coll :
           coll[i][field] = value /\ \A j \in 1..(i - 1) : coll[j][field] # value
    ELSE 0

\* The strings the model uses, in Python's str order (code point order).
StrOrder ==
    <<"", "Alice", "Alps", "Ann", "Bob", "Brooklyn", "Central Park", "Charlie",
      "Dana", "Paris", "Studio", "Tokyo">>

StrRank(s) == CHOOSE i \in DOMAIN StrOrder : StrOrder[i] = s

\* Sort keys: a str by its place in str order, an int by its value.
StrKey == [s \in Range(StrOrder) |-> StrRank(s)]

IntKey == [n \in Int |-> n]

\* sorted(list): stable, ascending, keeps repeated entries.
RECURSIVE InsertSorted(_, _, _)
InsertSorted(sorted, x, key) ==
    IF sorted = <<>> THEN <<x>>
    ELSE IF key[x] < key[Head(sorted)] THEN <<x>> \o sorted
    ELSE <<Head(sorted)>> \o InsertSorted(Tail(sorted), x, key)

RECURSIVE SortedList(_, _)
SortedList(s, key) ==
    IF s = <<>> THEN <<>>
    ELSE InsertSorted(SortedList(SubSeq(s, 1, Len(s) - 1), key), s[Len(s)], key)

\* A list holding the members of set S once each; the store fixes no order for
\* the array $addToSet builds, and every caller sorts it.
RECURSIVE ListOfSet(_)
ListOfSet(S) ==
    IF S = {} THEN <<>>
    ELSE LET x == CHOOSE x \in S : TRUE IN <<x>> \o ListOfSet(S \ {x})

\* ----------------------------------------------------------- request inputs

SeedUrl1 == "https://images.unsplash.com/photo-1529626455594-4ff0802cfb7e?w=800"
SeedUrl2 == "https://images.unsplash.com/photo-1544005313-94ddf0286df2?w=800"
SeedUrl3 == "https://images.unsplash.com/photo-1517841905240-472988babdf9?w=800"
SeedUrl4 == "https://images.unsplash.com/photo-1500648767791-00dcc994a43e?w=800"
SeedUrl5 == "https://images.unsplash.com/photo-1500530855697-b586d89ba3ee?w=800"

\* The demo photos of seed_mock, in the order the handler lists them.
SeedPhotos ==
    << [url |-> SeedUrl1, filename |-> "friends-park.jpg", place |-> Some("Central Park"),
        year |-> Some(2019), people |-> <<"Alice", "Bob">>],
       [url |-> SeedUrl2, filename |-> "portrait-alice.jpg", place |-> Some("Studio"),
        year |-> Some(2020), people |-> <<"Alice">>],
       [url |-> SeedUrl3, filename |-> "dog-walk.jpg", place |-> Some("Brooklyn"),
        year |-> Some(2018), people |-> <<"Bob">>],
       [url |-> SeedUrl4, filename |-> "city-trip.jpg", place |-> Some("Tokyo"),
        year |-> Some(2023), people |-> <<"Charlie", "Dana">>],
       [url |-> SeedUrl5, filename |-> "mountain-hike.jpg", place |-> Some("Alps"),
        year |-> Some(2021), people |-> <<"Alice", "Charlie">>] >>

\* PhotoCreate bodies sent to POST /api/photos: the scenario photo, a second
\* photo under the same url with an empty place and a repeated name, a photo
\* under a demo url with year 0, and a photo tagged at creation.
PhotoPayloads ==
    { [url |-> "u1", filename |-> "f1", place |-> Some("Paris"), year |-> Some(2022),
       people |-> <<>>],
      [url |-> "u1", filename |-> "f1", place |-> Some(""), year |-> None,
       people |-> <<"Ann", "Ann">>],
      [url |-> SeedUrl2, filename |-> "f1", place |-> None, year |-> Some(0),
       people |-> <<>>],
      [url |-> "u2", filename |-> "f1", place |-> Some("Paris"), year |-> Some(0),
       people |-> <<"Ann", "Bob">>] }

\* PersonCreate names sent to POST /api/people.
PersonNames == {"Ann", "Bob"}

\* IdentifyRequest bodies sent to POST /api/identify; no photo has url "u9".
IdentifyUrls == {"u1", SeedUrl2, "u9"}
PeopleLists == {<<"Ann">>, <<"Ann", "Bob">>, <<"Bob", "Bob">>}

\* Query strings of GET /api/photos.  year arrives as the raw text of the
\* query string, a sequence of characters; limit is left out (the default) or 1.
ListRequest(place, year, person, limit) ==
    [place |-> place, year |-> year, person |-> person, limit |-> limit]

YearTexts == {<<"0">>, <<"2", "0", "2", "2">>, <<"a", "b", "c">>, <<>>}

ListRequests ==
    {ListRequest(place, year, person, None) :
        place \in {None, Some("Paris")},
        year \in {None} \cup {Some(t) : t \in YearTexts \ {<<>>}},
        person \in {None, Some("Ann")}}
    \cup {ListRequest(Some(""), None, None, None),
          ListRequest(None, Some(<<>>), None, None),
          ListRequest(None, None, Some(""), None),
          ListRequest(None, None, Some("Bob"), None),
          ListRequest(None, None, None, Some(1)),
          ListRequest(Some("Paris"), None, Some("Ann"), Some(1))}

\* ------------------------------------------------------------ the database

\* create_document(collection, data): the document is appended to the
\* collection under a newly assigned identifier, which is returned.
create_document(coll, data) ==
    LET oid == Len(coll) + 1
    IN [coll |-> Append(coll, [oid |-> oid] @@ data), id |-> oid]

\* serialize(doc): the stored identifier is surfaced as the field id (the
\* documents of the model hold no datetime to convert).
serialize(doc) ==
    [k \in (DOMAIN doc \ {"oid"}) \cup {"id"} |-> IF k = "id" THEN doc.oid ELSE doc[k]]

\* ------------------------------------------------------------- add_photo

\* POST /api/photos: the stored collection and the response.
add_photo(ph, payload) ==
    LET made == create_document(ph, payload)
    IN [photos |-> made.coll, status |-> 200, body |-> [id |-> made.id]]

\* ----------------------------------------------------------- list_photos

Digits == <<"0", "1", "2", "3", "4", "5", "6", "7", "8", "9">>

IsDigit(c) == \E d \in DOMAIN Digits : Digits[d] = c

DigitValue(c) == (CHOOSE d \in DOMAIN Digits : Digits[d] = c) - 1

\* Whether the text of a query parameter parses as an int (decimal digits).
IsIntText(t) == Len(t) > 0 /\ \A i \in DOMAIN t : IsDigit(t[i])

RECURSIVE IntOfText(_)
IntOfText(t) ==
    IF t = <<>> THEN 0
    ELSE 10 * IntOfText(SubSeq(t, 1, Len(t) - 1)) + DigitValue(t[Len(t)])

\* The year parameter as the framework hands it to list_photos, which
\* declares it Optional[int]: absent stays None, an int text is converted, and
\* any other text fails request validation before the handler runs.
YearArgument(raw) ==
    IF raw = None THEN [valid |-> TRUE, value |-> None]
    ELSE IF IsIntText(raw[1]) THEN [valid |-> TRUE, value |-> Some(IntOfText(raw[1]))]
    ELSE [valid |-> FALSE, value |-> None]

DefaultLimit == 100

\* A str parameter is used when it is truthy: supplied and not empty.
Truthy(opt) == opt # None /\ opt # Some("")

\* Variant of FilterDict: year tested for truth, so year 0 is left out.
FilterDictYearTruthy(place, year, person) ==
    [place |-> IF Truthy(place) THEN place ELSE None,
     year |-> IF year # None /\ year # Some(0) THEN year ELSE None,
     people |-> IF Truthy(person) THEN person ELSE None]

\* filter_dict of list_photos; a field that is None is a key left out.  year
\* reaches the handler as an int or None, so str(year) != "" holds and int(year)
\* is year whenever it is not None.
FilterDict(place, year, person) ==
    [place |-> IF Truthy(place) THEN place ELSE None,
     year |-> IF year # None THEN year ELSE None,
     people |-> IF Truthy(person) THEN person ELSE None]

\* Whether a photo document matches filter_dict: equality on place and year,
\* {"$in": [person]} on the people array.
MatchesFilter(doc, f) ==
    /\ f.place # None => doc.place = f.place
    /\ f.year # None => doc.year = f.year
    /\ f.people # None => f.people[1] \in Range(doc.people)

\* get_documents(collection, filter, limit): up to limit documents that match
\* the filter, in natural order.
get_documents(coll, f, limit) ==
    LET Matches(doc) == MatchesFilter(doc, f)
        found == SelectSeq(coll, Matches)
    IN SubSeq(found, 1, IF limit < Len(found) THEN limit ELSE Len(found))

\* GET /api/photos with the query parameters as received.
list_photos(ph, place, yearRaw, person, limitArg) ==
    LET year == YearArgument(yearRaw)
        limit == IF limitArg = None THEN DefaultLimit ELSE limitArg[1]
        filter_dict == FilterDict(place, year.value, person)
        docs == get_documents(ph, filter_dict, limit)
    IN IF ~year.valid THEN [status |-> 422, body |-> <<>>]
       ELSE [status |-> 200, body |-> [i \in DOMAIN docs |-> serialize(docs[i])]]

\* --------------------------------------------------------- create_person

\* POST /api/people.
create_person(ps, name, alias) ==
    LET made == create_document(ps, [name |-> name, alias |-> alias, photo_count |-> 0])
    IN [persons |-> made.coll, status |-> 200, body |-> [id |-> made.id]]

\* ------------------------------------------------------- identify_people

\* Variant of AddToSetEach: $push in place of $addToSet, every name is appended.
PushEach(people, names) == people \o names

\* {"$addToSet": {"people": {"$each": names}}}: each name in turn is appended
\* unless the array already holds it.
RECURSIVE AddToSetEach(_, _)
AddToSetEach(people, names) ==
    IF names = <<>> THEN people
    ELSE AddToSetEach(IF Head(names) \in Range(people) THEN people
                      ELSE Append(people, Head(names)),
                      Tail(names))

\* Variant of UpdatePhotoPeople: without the $set of updated_at a document is
\* modified only when its array grows.
UpdatePhotoNoStamp(ph, url, names) ==
    LET i == FirstIndex(ph, "url", url)
    IN IF i = 0 THEN [photos |-> ph, matched |-> 0, modified |-> 0]
       ELSE [photos |-> [ph EXCEPT ![i].people = AddToSetEach(@, names)],
             matched |-> 1,
             modified |-> IF AddToSetEach(ph[i].people, names) = ph[i].people THEN 0 ELSE 1]

\* Variant of UpdatePhotoPeople: $set in place of $addToSet, the array is replaced.
UpdatePhotoReplace(ph, url, names) ==
    LET i == FirstIndex(ph, "url", url)
    IN IF i = 0 THEN [photos |-> ph, matched |-> 0, modified |-> 0]
       ELSE [photos |-> [ph EXCEPT ![i].people = names], matched |-> 1, modified |-> 1]

\* db["photo"].update_one({"url": url}, {"$addToSet": ..., "$set": {"updated_at":
\* utcnow()}}): the first photo with the url is updated.  A matched document
\* counts as modified: the stamp it is given is later than the one it holds.
UpdatePhotoPeople(ph, url, names) ==
    LET i == FirstIndex(ph, "url", url)
    IN IF i = 0 THEN [photos |-> ph, matched |-> 0, modified |-> 0]
       ELSE [photos |-> [ph EXCEPT ![i].people = AddToSetEach(@, names)],
             matched |-> 1, modified |-> 1]

\* Variant of IncPerson: upsert left out, a name with no record is skipped.
IncPersonNoUpsert(ps, name) ==
    LET i == FirstIndex(ps, "name", name)
    IN IF i = 0 THEN ps ELSE [ps EXCEPT ![i].photo_count = @ + 1]

\* db["person"].update_one({"name": name}, {"$inc": {"photo_count": 1}},
\* upsert=True): the first person with the name is incremented; when there is
\* none a document {name, photo_count: 1} is inserted.
IncPerson(ps, name) ==
    LET i == FirstIndex(ps, "name", name)
    IN IF i = 0
       THEN Append(ps, [oid |-> Len(ps) + 1, name |-> name, photo_count |-> 1])
       ELSE [ps EXCEPT ![i].photo_count = @ + 1]

\* for name in req.people: one update per entry, in order.
RECURSIVE IncPeople(_, _)
IncPeople(ps, names) ==
    IF names = <<>> THEN ps
    ELSE IncPeople(IncPerson(ps, Head(names)), Tail(names))

\* POST /api/identify.
identify_people(ph, ps, url, names) ==
    LET result == UpdatePhotoPeople(ph, url, names)
    IN [photos |-> result.photos, persons |-> IncPeople(ps, names), status |-> 200,
        body |-> [matched |-> result.matched, modified |-> result.modified]]

\* ----------------------------------------------------------- get_filters

\* The $group stage with _id None: no result for an empty collection, else one
\* document holding the set of place values and the set of year values (a
\* null value is a member like any other).
Aggregate(ph) ==
    IF ph = <<>> THEN <<>>
    ELSE << [places |-> ListOfSet({ph[i].place : i \in DOMAIN ph}),
             years |-> ListOfSet({ph[i].year : i \in DOMAIN ph})] >>

\* [p for p in data["places"] if p] and [y for y in data["years"] if y is not None].
PlacesOf(agg) ==
    IF agg = <<>> THEN <<>>
    ELSE LET kept == SelectSeq(agg[1].places, Truthy) IN [i \in DOMAIN kept |-> kept[i][1]]

YearsOf(agg) ==
    IF agg = <<>> THEN <<>>
    ELSE LET IsYear(y) == y # None
             kept == SelectSeq(agg[1].years, IsYear)
         IN [i \in DOMAIN kept |-> kept[i][1]]

\* GET /api/filters.
get_filters(ph, ps) ==
    LET agg == Aggregate(ph)
        ppl == [i \in DOMAIN ps |-> ps[i].name]
    IN [status |-> 200,
        body |-> [places |-> SortedList(PlacesOf(agg), StrKey),
                  years |-> SortedList(YearsOf(agg), IntKey),
                  people |-> SortedList(ppl, StrKey)]]

\* ------------------------------------------------------------- seed_mock

\* Variant of InsertMissing: the find_one check left out, every demo photo is
\* inserted.
RECURSIVE InsertAlways(_, _, _)
InsertAlways(ph, inserted, k) ==
    IF k > Len(SeedPhotos) THEN [photos |-> ph, inserted |-> inserted]
    ELSE InsertAlways(Append(ph, [oid |-> Len(ph) + 1] @@ SeedPhotos[k]), inserted + 1, k + 1)

\* The upsert loop over the demo photos from index k on: a photo whose url
\* some stored photo has is skipped, any other is inserted and counted.
RECURSIVE InsertMissing(_, _, _)
InsertMissing(ph, inserted, k) ==
    IF k > Len(SeedPhotos) THEN [photos |-> ph, inserted |-> inserted]
    ELSE IF FirstIndex(ph, "url", SeedPhotos[k].url) # 0
    THEN InsertMissing(ph, inserted, k + 1)
    ELSE InsertMissing(Append(ph, [oid |-> Len(ph) + 1] @@ SeedPhotos[k]), inserted + 1,
                       k + 1)

\* Every name of every people list, photo by photo.
RECURSIVE AllNames(_)
AllNames(ph) == IF ph = <<>> THEN <<>> ELSE Head(ph).people \o AllNames(Tail(ph))

\* The keys of counts in insertion order: each name at its first occurrence.
CountKeys(ph) == AddToSetEach(<<>>, AllNames(ph))

\* counts[name] after the scan of the photo collection.
Tally(ph, name) == Count(AllNames(ph), name)

\* db["person"].update_one({"name": name}, {"$set": {"photo_count": cnt}},
\* upsert=True).
SetPerson(ps, name, cnt) ==
    LET i == FirstIndex(ps, "name", name)
    IN IF i = 0
       THEN Append(ps, [oid |-> Len(ps) + 1, name |-> name, photo_count |-> cnt])
       ELSE [ps EXCEPT ![i].photo_count = cnt]

RECURSIVE SetPeople(_, _, _)
SetPeople(ps, ph, keys) ==
    IF keys = <<>> THEN ps
    ELSE SetPeople(SetPerson(ps, Head(keys), Tally(ph, Head(keys))), ph, Tail(keys))

\* POST /api/mock/seed.
seed_mock(ph, ps) ==
    LET up == InsertMissing(ph, 0, 1)
        keys == CountKeys(up.photos)
    IN [photos |-> up.photos, persons |-> SetPeople(ps, up.photos, keys), status |-> 200,
        body |-> [inserted |-> up.inserted,
                  people |-> [n \in Range(keys) |-> Tally(up.photos, n)]]]

\* ------------------------------------------------------- the request loop

Store == [photos |-> photos, persons |-> persons]

NoResponse == [op |-> "none", req |-> <<>>, status |-> 0, body |-> <<>>]

Init ==
    /\ photos = <<>>
    /\ persons = <<>>
    /\ resp = NoResponse
    /\ prev = [photos |-> <<>>, persons |-> <<>>]
    /\ writes = 0
    /\ inflight = <<>>

\* A writing request: the store before it is kept in prev.
Wrote(op, req, out) ==
    /\ resp' = [op |-> op, req |-> req, status |-> out.status, body |-> out.body]
    /\ prev' = Store
    /\ writes' = writes + 1
    /\ UNCHANGED inflight

\* A reading request leaves the store as it is.
Read(op, req, out) ==
    /\ resp' = [op |-> op, req |-> req, status |-> out.status, body |-> out.body]
    /\ prev' = Store
    /\ UNCHANGED <<photos, persons, writes, inflight>>

AddPhotoWith(payload) ==
    LET out == add_photo(photos, payload)
    IN /\ writes < MaxWrites
       /\ photos' = out.photos
       /\ UNCHANGED persons
       /\ Wrote("add_photo", payload, out)

AddPhoto == \E payload \in PhotoPayloads : AddPhotoWith(payload)

ListPhotos ==
    \E req \in ListRequests :
         Read("list_photos", req,
              list_photos(photos, req.place, req.year, req.person, req.limit))

CreatePersonWith(name) ==
    LET out == create_person(persons, name, None)
    IN /\ writes < MaxWrites
       /\ persons' = out.persons
       /\ UNCHANGED photos
       /\ Wrote("create_person", [name |-> name], out)

CreatePerson == \E name \in PersonNames : CreatePersonWith(name)

IdentifyWith(url, names) ==
    LET out == identify_people(photos, persons, url, names)
    IN /\ writes < MaxWrites
       /\ photos' = out.photos
       /\ persons' = out.persons
       /\ Wrote("identify", [photo_url |-> url, people |-> names], out)

IdentifyPeople == \E url \in IdentifyUrls, names \in PeopleLists : IdentifyWith(url, names)

GetFilters == Read("get_filters", <<>>, get_filters(photos, persons))

SeedMock ==
    LET out == seed_mock(photos, persons)
    IN /\ writes < MaxWrites
       /\ photos' = out.photos
       /\ persons' = out.persons
       /\ Wrote("seed", <<>>, out)

Next == AddPhoto \/ ListPhotos \/ CreatePerson \/ IdentifyPeople \/ GetFilters \/ SeedMock

Spec == Init /\ [][Next]_vars

\* ------------------------------------------------ the tagging paths alone

\* A photo posted with no tags under a url no stored photo has.
AddPhotoTag ==
    \E payload \in PhotoPayloads :
       /\ payload.people = <<>>
       /\ \A i \in DOMAIN photos : photos[i].url # payload.url
       /\ AddPhotoWith(payload)

\* create_person called at most once per name: no document it made (the ones
\* that hold an alias key) has the name.
CreatePersonTag ==
    \E name \in PersonNames :
       /\ \A i \in DOMAIN persons :
            "alias" \in DOMAIN persons[i] => persons[i].name # name
       /\ CreatePersonWith(name)

\* identify on a stored photo, with names its people list does not hold and no
\* name twice.
IdentifyTag ==
    \E url \in IdentifyUrls, names \in PeopleLists :
       /\ \E i \in DOMAIN photos : photos[i].url = url
       /\ \A i \in DOMAIN photos :
            photos[i].url = url => Range(photos[i].people) \cap Range(names) = {}
       /\ \A n \in Range(names) : Count(names, n) = 1
       /\ IdentifyWith(url, names)

NextTag == AddPhotoTag \/ CreatePersonTag \/ IdentifyTag \/ SeedMock

SpecTag == Init /\ [][NextTag]_vars

\* --------------------------------------------- identify calls in parallel

\* The identify requests in flight at once.
Calls == {1, 2}

\* Stores the requests of the loop above reach: the scenario photo alone, the
\* same after Ann was identified on it, and the same with Ann and Bob created.
StorePosted ==
    [photos |-> add_photo(<<>>, [url |-> "u1", filename |-> "f1", place |-> Some("Paris"),
                                 year |-> Some(2022), people |-> <<>>]).photos,
     persons |-> <<>>]

StoreTagged ==
    LET out == identify_people(StorePosted.photos, <<>>, "u1", <<"Ann">>)
    IN [photos |-> out.photos, persons |-> out.persons]

StoreCreated ==
    [photos |-> StorePosted.photos,
     persons |-> create_person(create_person(<<>>, "Ann", None).persons, "Bob", None).persons]

ConcStores == {StorePosted, StoreTagged, StoreCreated}

\* A call that has run no store operation yet; k is the index of the next name
\* of the for loop, started and finished the numbers of its first and last
\* store operation.
NewCall(names) ==
    [url |-> "u1", names |-> names, pc |-> "photo", k |-> 1, started |-> 0, finished |-> 0,
     result |-> <<>>]

InitConc ==
    /\ \E st \in ConcStores :
         /\ photos = st.photos
         /\ persons = st.persons
         /\ prev = st
    /\ resp = NoResponse
    /\ writes = 0
    /\ inflight \in [Calls -> {NewCall(names) : names \in PeopleLists}]

\* The update_one on the photo collection of call c, one store operation.
CallUpdatePhoto(c) ==
    LET call == inflight[c]
        result == UpdatePhotoPeople(photos, call.url, call.names)
    IN /\ call.pc = "photo"
       /\ photos' = result.photos
       /\ writes' = writes + 1
       /\ inflight' = [inflight EXCEPT ![c].pc = "person",
                                       ![c].started = writes + 1,
                                       ![c].result = [matched |-> result.matched,
                                                      modified |-> result.modified]]
       /\ UNCHANGED <<persons, resp, prev>>

\* One turn of the for loop of call c: the update_one on the person collection
\* for the next name, one store operation; after the last the call returns.
CallIncPerson(c) ==
    LET call == inflight[c]
    IN /\ call.pc = "person"
       /\ persons' = IncPerson(persons, call.names[call.k])
       /\ writes' = writes + 1
       /\ inflight' = [inflight EXCEPT ![c].k = call.k + 1,
                                       ![c].finished = writes + 1,
                                       ![c].pc = IF call.k = Len(call.names)
                                                 THEN "done" ELSE "person"]
       /\ UNCHANGED <<photos, resp, prev>>

NextConc == \E c \in Calls : CallUpdatePhoto(c) \/ CallIncPerson(c)

SpecConc == InitConc /\ [][NextConc]_vars

\* ------------------------------------------------------------ properties

\* How often name n occurs across the people lists of all photos of ph.
RECURSIVE Occurrences(_, _)
Occurrences(ph, n) ==
    IF ph = <<>> THEN 0 ELSE Count(Head(ph).people, n) + Occurrences(Tail(ph), n)

\* The names tagged on some photo of ph.
TaggedNames(ph) == UNION {Range(ph[i].people) : i \in DOMAIN ph}

\* The position of the first document of coll whose field holds value, else 0.
FirstWith(coll, field, value) ==
    IF \E i \in DOMAIN coll : coll[i][field] = value
    THEN CHOOSE i \in DOMAIN coll :
           coll[i][field] = value /\ \A j \in 1..(i - 1) : coll[j][field] # value
    ELSE 0

\* The last request was POST /api/identify; its body and the photo it found.
Identified == resp.op = "identify"
IdUrl == resp.req.photo_url
IdNames == resp.req.people
IdTarget == FirstWith(prev.photos, "url", IdUrl)

\* C1: two seed_mock calls in a row: the second inserts no photo and leaves the
\* photo collection and every person's photo_count as the first left them.
C1_SeedIdempotent ==
    [][(resp.op = "seed" /\ resp'.op = "seed" /\ writes' = writes + 1)
         => /\ resp'.body.inserted = 0
            /\ photos' = photos
            /\ persons' = persons
            /\ resp'.body.people = resp.body.people]_vars

\* C1 witness: a seed call that found a seeded store holding a posted photo and
\* left it as it was.
C1_Witness ==
    /\ resp.op = "seed"
    /\ resp.body.inserted = 0
    /\ prev = Store
    /\ \E i \in DOMAIN photos : photos[i].filename = "f1"
    /\ \A k \in DOMAIN SeedPhotos :
         Cardinality({i \in DOMAIN photos : photos[i].url = SeedPhotos[k].url}) = 1
    /\ \E i \in DOMAIN persons : persons[i].photo_count = 3

\* C2: right after seed_mock every person record whose name is tagged on some
\* photo has photo_count equal to the occurrences of the name across all people
\* lists, and the returned people map holds exactly these tallies.
C2_SeedAuthoritative ==
    resp.op = "seed" =>
        /\ \A i \in DOMAIN persons :
             persons[i].name \in TaggedNames(photos)
               => persons[i].photo_count = Occurrences(photos, persons[i].name)
        /\ resp.body.people = [n \in TaggedNames(photos) |-> Occurrences(photos, n)]

\* C3: identify on an existing photo adds the names with set-union semantics:
\* every supplied name is in the photo's people list afterwards, a name the list
\* already held gains no occurrence, a new name occurs once, the names held
\* before are kept in place, and nothing else of any photo changes.
C3_AddToSet ==
    (Identified /\ IdTarget # 0) =>
        LET before == prev.photos[IdTarget].people
            after == photos[IdTarget].people
        IN /\ \A n \in Range(IdNames) : n \in Range(after)
           /\ \A n \in Range(before) : Count(after, n) = Count(before, n)
           /\ \A n \in Range(IdNames) \ Range(before) : Count(after, n) = 1
           /\ Range(after) = Range(before) \cup Range(IdNames)
           /\ SubSeq(after, 1, Len(before)) = before
           /\ [photos EXCEPT ![IdTarget].people = before] = prev.photos

\* C3 witness: a name tagged once on the photo is identified on it again,
\* together with a name the photo did not hold.
C3_Witness ==
    /\ Identified
    /\ IdTarget # 0
    /\ \E n \in Range(IdNames) :
         /\ Count(prev.photos[IdTarget].people, n) = 1
         /\ Count(photos[IdTarget].people, n) = 1
    /\ \E n \in Range(IdNames) : n \notin Range(prev.photos[IdTarget].people)

IdHits == {i \in DOMAIN prev.photos : prev.photos[i].url = IdUrl}

\* C5: identify with a non-empty list on the one photo stored under a url answers
\* matched 1 and modified 1; afterwards list_photos(person=n) returns that photo
\* for every supplied n and get_filters holds the photo's place and year and
\* every supplied name.  On a url no photo has it answers matched 0 and
\* modified 0 without an error and no photo record changes.
C5_TagScenario ==
    Identified =>
        /\ resp.status = 200
        /\ (Cardinality(IdHits) = 1 /\ IdNames # <<>>) =>
             LET doc == photos[IdTarget]
                 filters == get_filters(photos, persons)
             IN /\ resp.body = [matched |-> 1, modified |-> 1]
                /\ \A n \in Range(IdNames) :
                     LET listed == list_photos(photos, None, None, Some(n), None)
                     IN /\ listed.status = 200
                        /\ \E k \in DOMAIN listed.body :
                             /\ listed.body[k].id = doc.oid
                             /\ listed.body[k].url = IdUrl
                /\ filters.status = 200
                /\ Truthy(doc.place) => doc.place[1] \in Range(filters.body.places)
                /\ doc.year # None => doc.year[1] \in Range(filters.body.years)
                /\ \A n \in Range(IdNames) : n \in Range(filters.body.people)
        /\ IdHits = {} =>
             /\ resp.body = [matched |-> 0, modified |-> 0]
             /\ photos = prev.photos

\* C5 witness: the photo posted under u1 with place Paris and year 2022 and no
\* tags is identified with Ann and Bob and the call answers 1 and 1.
C5_Witness ==
    /\ Identified
    /\ Cardinality(IdHits) = 1
    /\ IdNames = <<"Ann", "Bob">>
    /\ prev.photos[IdTarget].people = <<>>
    /\ photos[IdTarget].place = Some("Paris")
    /\ photos[IdTarget].year = Some(2022)
    /\ resp.body = [matched |-> 1, modified |-> 1]

\* The last request was GET /api/photos.
Listed == resp.op = "list_photos"

\* The int a year text of the requests denotes.
YearOfText == [t \in {<<"0">>, <<"2", "0", "2", "2">>} |-> IF t = <<"0">> THEN 0 ELSE 2022]

\* The photos that satisfy the place and person filters of the request, and its
\* year filter when withYear.
Selected(req, withYear) ==
    {i \in DOMAIN photos :
        /\ req.place # None => photos[i].place = req.place
        /\ (withYear /\ req.year # None) => photos[i].year = Some(YearOfText[req.year[1]])
        /\ req.person # None => req.person[1] \in Range(photos[i].people)}

\* The response lists exactly the photos of set S, each once.
ListsExactly(S) ==
    /\ resp.status = 200
    /\ Len(resp.body) = Cardinality(S)
    /\ {resp.body[k].id : k \in DOMAIN resp.body} = {photos[i].oid : i \in S}
    /\ \A k \in DOMAIN resp.body :
         \E i \in S : /\ resp.body[k].id = photos[i].oid
                      /\ resp.body[k].url = photos[i].url
                      /\ resp.body[k].people = photos[i].people

\* C6: with a limit of at least the number of photos, place absent or a non-empty
\* string, year absent or an integer and person absent or a non-empty string,
\* list_photos returns exactly the photos whose place and year equal the given
\* ones and whose people list holds the given person.
C6_Conjunctive ==
    ( /\ Listed
      /\ (IF resp.req.limit = None THEN 100 ELSE resp.req.limit[1]) >= Len(photos)
      /\ resp.req.place # Some("")
      /\ resp.req.person # Some("")
      /\ resp.req.year # None => resp.req.year[1] \in DOMAIN YearOfText )
    => ListsExactly(Selected(resp.req, TRUE))

\* C6 witness: place, year and person are all supplied, one photo is returned,
\* and a photo with the same place and person but another year is left out.
C6_Witness ==
    /\ Listed
    /\ resp.req = ListRequest(Some("Paris"), Some(<<"2", "0", "2", "2">>), Some("Ann"), None)
    /\ Len(resp.body) = 1
    /\ \E i \in DOMAIN photos :
         /\ photos[i].place = Some("Paris")
         /\ "Ann" \in Range(photos[i].people)
         /\ photos[i].people # <<"Ann">>
         /\ photos[i].year = Some(0)
    /\ resp.body[1].year = Some(2022)

\* C7: a year that is supplied but does not parse as an integer is ignored:
\* list_photos answers without an error with the photos that match the other
\* filters.
C7_BadYearIgnored ==
    ( /\ Listed
      /\ resp.req.year # None
      /\ resp.req.year[1] \notin DOMAIN YearOfText
      /\ resp.req.limit = None )
    => ListsExactly(Selected(resp.req, FALSE))

\* List s ascends strictly under key (so it repeats nothing).
Ascending(s, key) == \A i, j \in DOMAIN s : i < j => key[s[i]] < key[s[j]]

\* C8: get_filters answers three lists, each sorted ascending without
\* duplicates: the non-empty places of the photos, the non-null years of the
\* photos and the names of the person collection; all empty on an empty store.
C8_FiltersExact ==
    resp.op = "get_filters" =>
        /\ resp.status = 200
        /\ Ascending(resp.body.places, StrKey)
        /\ Range(resp.body.places)
             = {photos[i].place[1] : i \in {j \in DOMAIN photos : Truthy(photos[j].place)}}
        /\ Ascending(resp.body.years, IntKey)
        /\ Range(resp.body.years)
             = {photos[i].year[1] : i \in {j \in DOMAIN photos : photos[j].year # None}}
        /\ Ascending(resp.body.people, StrKey)
        /\ Range(resp.body.people) = {persons[i].name : i \in DOMAIN persons}

\* C9: on the tagging paths (photos posted untagged under fresh urls, each name
\* created at most once, seed, identify of new names on stored photos) every
\* person record's photo_count is the number of photos whose people list holds
\* the person's name.
C9_CountIsMembership ==
    \A i \in DOMAIN persons :
        persons[i].photo_count
          = Cardinality({j \in DOMAIN photos : persons[i].name \in Range(photos[j].people)})

\* Every call in flight has returned.
AllDone == \A c \in Calls : inflight[c].pc = "done"

\* The names some call supplies, and how often the calls supply name n in all.
Supplied == UNION {Range(inflight[c].names) : c \in Calls}

RECURSIVE SuppliedIn(_, _)
SuppliedIn(cs, n) ==
    IF cs = {} THEN 0
    ELSE LET c == CHOOSE c \in cs : TRUE
         IN Count(inflight[c].names, n) + SuppliedIn(cs \ {c}, n)

====
